---------------------------- MODULE Spec2Model ----------------------------
(***************************************************************************)
(* A model of rosu-renderer: the playback clock of Player (src/src/lib.rs),*)
(* the lane renderer ManiaRenderer (src/src/layout/mania.rs) and the host  *)
(* application ManiaApp (src/examples/mania.rs).                           *)
(*                                                                         *)
(* Numbers.  The source computes in f64 / f32.  A float is modelled as an  *)
(* extended rational [n, d]: d > 0 is the rational n/d in lowest terms,    *)
(* d = 0 is +inf (n = 1), -inf (n = -1) or NaN (n = 0).  Arithmetic is     *)
(* exact: rounding of the mantissa is abstracted, the IEEE special values  *)
(* that a division by a zero speed or scroll window produces are kept.     *)
(* The zero of the model is +0.0.  Wall-clock instants are integer         *)
(* milliseconds.                                                           *)
(*                                                                         *)
(* Drawing.  A frame is the sequence of primitives handed to the painter.  *)
(* Colours and the shape of the note style are left out: draw_note is one  *)
(* primitive whatever the shape.  Lane counts are at least 1: with no lane *)
(* the `% keycount` of the source has no value.                            *)
(***************************************************************************)
EXTENDS Integers, Sequences, FiniteSets, TLC

VARIABLES
    beatmap,        \* Player.beatmap: [mode, circle_size, hit_objects]
    player,         \* "Some" | "None" (Player::new returned None) | "Panicked"
    now,            \* the wall clock (Instant::now()), in ms
    start_time,     \* Player.start_time, the reference instant, in ms
    speed,          \* Player.speed
    scroll_time_ms, \* Player.scroll_time_ms
    renderer,       \* the ManiaRenderer: [column_width, note_size, speed, height]
    out,            \* what the last call returned or drew
    app             \* the host, ManiaApp (src/examples/mania.rs), or NoApp

vars == <<beatmap, player, now, start_time, speed, scroll_time_ms, renderer, out, app>>

---------------------------------------------------------------------------
(* Floats as extended rationals *)

Abs(x) == IF x < 0 THEN -x ELSE x

Sgn(x) == IF x < 0 THEN -1 ELSE IF x > 0 THEN 1 ELSE 0

RECURSIVE GCD(_, _)
GCD(a, b) == IF b = 0 THEN a ELSE GCD(b, a % b)

Norm(n, d) ==
    IF d = 0 THEN [n |-> Sgn(n), d |-> 0]
    ELSE LET g == GCD(Abs(n), Abs(d))
             s == Sgn(d)
         IN  [n |-> (s * n) \div g, d |-> (s * d) \div g]

F(i) == [n |-> i, d |-> 1]

Frac(a, b) == Norm(a, b)

NaN == [n |-> 0, d |-> 0]

PosInf == [n |-> 1, d |-> 0]

NegInf == [n |-> -1, d |-> 0]

IsNaN(a) == a.n = 0 /\ a.d = 0

IsFinite(a) == a.d > 0

FNeg(a) == [n |-> -a.n, d |-> a.d]

FAdd(a, b) ==
    IF IsNaN(a) \/ IsNaN(b) THEN NaN
    ELSE IF a.d = 0 /\ b.d = 0 THEN (IF a.n = b.n THEN a ELSE NaN)
    ELSE IF a.d = 0 THEN a
    ELSE IF b.d = 0 THEN b
    ELSE Norm(a.n * b.d + b.n * a.d, a.d * b.d)

FSub(a, b) == FAdd(a, FNeg(b))

FMul(a, b) ==
    IF IsNaN(a) \/ IsNaN(b) THEN NaN
    ELSE Norm(a.n * b.n, a.d * b.d)

\* 1/b; the zero of the model is +0.0, so 1/0 = +inf
FInv(b) ==
    IF IsNaN(b) THEN NaN
    ELSE IF b.d = 0 THEN F(0)
    ELSE IF b.n = 0 THEN PosInf
    ELSE Norm(b.d, b.n)

FDiv(a, b) == FMul(a, FInv(b))

\* a <= b as IEEE compares: false when either side is NaN
FLe(a, b) ==
    /\ ~IsNaN(a)
    /\ ~IsNaN(b)
    /\ IF a.d = 0 /\ b.d = 0 THEN a.n <= b.n
       ELSE IF a.d = 0 THEN a.n < 0
       ELSE IF b.d = 0 THEN b.n > 0
       ELSE a.n * b.d <= b.n * a.d

FGe(a, b) == FLe(b, a)

FLt(a, b) == FLe(a, b) /\ a # b

\* f32::min / f32::max: a NaN operand is ignored
FMin(a, b) == IF IsNaN(a) THEN b ELSE IF IsNaN(b) THEN a ELSE IF FLe(a, b) THEN a ELSE b

FMax(a, b) == IF IsNaN(a) THEN b ELSE IF IsNaN(b) THEN a ELSE IF FLe(a, b) THEN b ELSE a

FAbs(a) == [n |-> Abs(a.n), d |-> a.d]

---------------------------------------------------------------------------
(* Hit objects (rosu_map::HitObject): kind, raw x coordinate, times in ms *)

Circle(x, t) == [kind |-> "Circle", pos_x |-> x, start_time |-> t, duration |-> 0]

Hold(x, t, dur) == [kind |-> "Hold", pos_x |-> x, start_time |-> t, duration |-> dur]

\* any other HitObjectKind (Slider, Spinner)
Spinner(x, t, dur) == [kind |-> "Spinner", pos_x |-> x, start_time |-> t, duration |-> dur]

---------------------------------------------------------------------------
(* ManiaRenderer *)

JudgmentOffset == 100

PlayfieldUnits == 512

\* ManiaRenderer::with_sizes
with_sizes(column_width, note_size, height) ==
    [column_width |-> column_width, note_size |-> note_size,
     speed |-> F(1), height |-> height]

required_width(r, keycount) == FMul(r.column_width, F(keycount))

required_height(r) == r.height

\* (pos_x / 512.0 * keycount as f32) as usize % keycount: the cast truncates
\* toward zero and saturates a negative value to 0
Column(pos_x, keycount) ==
    IF pos_x < 0 THEN 0
    ELSE ((pos_x * keycount) \div PlayfieldUnits) % keycount

\* position.y + total_height - 100.0
JudgmentLineY(r, position) == FSub(FAdd(position.y, required_height(r)), F(JudgmentOffset))

\* a scaled time that leaves the scroll window out
ScaledTimeNoWindow(event_time, a) == FDiv(F(event_time), a.speed)

\* event_time / speed + scroll_time_ms
ScaledTime(event_time, a) == FAdd(FDiv(F(event_time), a.speed), a.scroll_time_ms)

\* a projection of one pixel per millisecond (no division by the scroll window)
ProjectYPerMs(r, a, event_time) ==
    LET time_diff == FSub(ScaledTime(event_time, a), a.current_time)
    IN  FSub(JudgmentLineY(r, a.position), time_diff)

\* judgment_line_y - (time_diff as f32 / scroll_time_ms) * total_height
ProjectY(r, a, event_time) ==
    LET time_diff == FSub(ScaledTime(event_time, a), a.current_time)
    IN  FSub(JudgmentLineY(r, a.position),
             FMul(FDiv(time_diff, a.scroll_time_ms), required_height(r)))

\* a draw primitive handed to the painter; obj is the index of the hit object
\* it was drawn for (0 for the static geometry)
Cmd(kind, obj, x, y, w, h) == [kind |-> kind, obj |-> obj, x |-> x, y |-> y, w |-> w, h |-> h]

\* ManiaRenderer::draw_note: the marker of the active shape, centred on y_pos
draw_note(r, i, x_pos, y_pos) == <<Cmd("note", i, x_pos, y_pos, r.note_size, r.note_size)>>

\* a render_hold that draws the end cap only when it is inside the playfield
render_hold_cap_in_view(r, i, x_pos, start_y, end_y, judgment_line_y) ==
    LET note_width == FMul(r.note_size, Frac(8, 10))
        x_center == FAdd(x_pos, FDiv(FSub(r.column_width, note_width), F(2)))
        y_start == FMin(start_y, end_y)
        y_end == FMin(FMax(start_y, end_y), judgment_line_y)
        visible_height == FAbs(FSub(y_end, y_start))
        cap_height == FMul(note_width, Frac(3, 10))
    IN  <<Cmd("body", i, x_center, y_start, note_width, visible_height)>>
        \o (IF FLe(end_y, judgment_line_y) /\ FGe(end_y, F(0))
            THEN <<Cmd("cap", i, x_center, end_y, note_width, cap_height)>>
            ELSE <<>>)

\* ManiaRenderer::render_hold
render_hold(r, i, x_pos, start_y, end_y, judgment_line_y) ==
    LET note_width == FMul(r.note_size, Frac(8, 10))
        x_center == FAdd(x_pos, FDiv(FSub(r.column_width, note_width), F(2)))
        y_start == FMin(start_y, end_y)
        y_end == FMin(FMax(start_y, end_y), judgment_line_y)
        visible_height == FAbs(FSub(y_end, y_start))
        cap_height == FMul(note_width, Frac(3, 10))
    IN  <<Cmd("body", i, x_center, y_start, note_width, visible_height)>>
        \o (IF FLe(end_y, judgment_line_y)
            THEN <<Cmd("cap", i, x_center, end_y, note_width, cap_height)>>
            ELSE <<>>)

\* the column strips, lines 192-199
RECURSIVE DrawColumns(_, _, _)
DrawColumns(r, a, i) ==
    IF i >= a.keycount THEN <<>>
    ELSE <<Cmd("lane", 0, FAdd(a.position.x, FMul(F(i), r.column_width)), a.position.y,
               r.column_width, required_height(r))>>
         \o DrawColumns(r, a, i + 1)

\* the judgment line, lines 201-208
DrawJudgmentLine(r, a) ==
    <<Cmd("line", 0, a.position.x, JudgmentLineY(r, a.position),
          required_width(r, a.keycount), F(0))>>

\* x of the lane of a hit object
LaneX(r, a, h) ==
    FAdd(a.position.x, FMul(F(Column(h.pos_x, a.keycount)), r.column_width))

\* a hold loop that calls render_hold whatever the end projection
DrawHoldUnguarded(r, a, i) ==
    LET h == a.hit_objects[i]
        judgment_line_y == JudgmentLineY(r, a.position)
        y_pos == ProjectY(r, a, h.start_time)
        end_y_pos == ProjectY(r, a, h.start_time + h.duration)
    IN  render_hold(r, i, LaneX(r, a, h), y_pos, end_y_pos, judgment_line_y)

\* one iteration of the hold loop, lines 216-235
DrawHold(r, a, i) ==
    LET h == a.hit_objects[i]
        judgment_line_y == JudgmentLineY(r, a.position)
        y_pos == ProjectY(r, a, h.start_time)
        end_y_pos == ProjectY(r, a, h.start_time + h.duration)
    IN  IF FLe(end_y_pos, judgment_line_y)
        THEN render_hold(r, i, LaneX(r, a, h), y_pos, end_y_pos, judgment_line_y)
        ELSE <<>>

\* "Draw hold notes first", lines 212-236
RECURSIVE DrawHolds(_, _, _)
DrawHolds(r, a, i) ==
    IF i > Len(a.hit_objects) THEN <<>>
    ELSE (IF a.hit_objects[i].kind = "Hold" THEN DrawHold(r, a, i) ELSE <<>>)
         \o DrawHolds(r, a, i + 1)

\* a note loop without the cull at the top of the playfield
DrawNoteNoTopCull(r, a, i) ==
    LET h == a.hit_objects[i]
        judgment_line_y == JudgmentLineY(r, a.position)
        y_pos == ProjectY(r, a, h.start_time)
    IN  IF FLe(y_pos, judgment_line_y) /\ h.kind \in {"Circle", "Hold"}
        THEN draw_note(r, i, LaneX(r, a, h), y_pos)
        ELSE <<>>

\* one iteration of the note loop, lines 240-263
DrawNote(r, a, i) ==
    LET h == a.hit_objects[i]
        judgment_line_y == JudgmentLineY(r, a.position)
        y_pos == ProjectY(r, a, h.start_time)
    IN  IF FLe(y_pos, judgment_line_y) /\ h.kind \in {"Circle", "Hold"} /\ FGe(y_pos, F(0))
        THEN draw_note(r, i, LaneX(r, a, h), y_pos)
        ELSE <<>>

\* "Then draw regular notes", lines 239-264
RECURSIVE DrawNotes(_, _, _)
DrawNotes(r, a, i) ==
    IF i > Len(a.hit_objects) THEN <<>>
    ELSE DrawNote(r, a, i) \o DrawNotes(r, a, i + 1)

\* a single pass that draws each hit object, hold or note, as it comes
RECURSIVE DrawInListOrder(_, _, _)
DrawInListOrder(r, a, i) ==
    IF i > Len(a.hit_objects) THEN <<>>
    ELSE (IF a.hit_objects[i].kind = "Hold" THEN DrawHold(r, a, i) ELSE <<>>)
         \o DrawNote(r, a, i) \o DrawInListOrder(r, a, i + 1)

RenderCmdsOnePass(r, a) ==
    DrawColumns(r, a, 0) \o DrawJudgmentLine(r, a) \o DrawInListOrder(r, a, 1)

\* the primitives ManiaRenderer::render_at emits, in order
RenderCmds(r, a) ==
    DrawColumns(r, a, 0) \o DrawJudgmentLine(r, a)
    \o (IF Len(a.hit_objects) > 0 THEN DrawHolds(r, a, 1) \o DrawNotes(r, a, 1) ELSE <<>>)

\* the y_pos the note loop computes for each hit object
NoteYs(r, a) ==
    IF Len(a.hit_objects) > 0
    THEN [i \in 1..Len(a.hit_objects) |-> ProjectY(r, a, a.hit_objects[i].start_time)]
    ELSE <<>>

\* the end_y_pos the hold loop computes for each hit object (NaN for a non-hold)
HoldEndYs(r, a) ==
    IF Len(a.hit_objects) > 0
    THEN [i \in 1..Len(a.hit_objects) |->
            IF a.hit_objects[i].kind = "Hold"
            THEN ProjectY(r, a, a.hit_objects[i].start_time + a.hit_objects[i].duration)
            ELSE NaN]
    ELSE <<>>

\* the arguments of ManiaRenderer::render_at
RenderArgs(hit_objects, current_time, scroll, spd, keycount, position) ==
    [hit_objects |-> hit_objects, current_time |-> current_time, scroll_time_ms |-> scroll,
     speed |-> spd, keycount |-> keycount, position |-> position]

NoOut == [op |-> "none", arg |-> <<>>, ret |-> <<>>, cmds |-> <<>>, ys |-> <<>>, end_ys |-> <<>>]

RenderOut(r, a) ==
    [op |-> "render_at", arg |-> a, ret |-> <<>>, cmds |-> RenderCmds(r, a),
     ys |-> NoteYs(r, a), end_ys |-> HoldEndYs(r, a)]

\* ManiaRenderer::render_at on renderer r: self.speed = speed, then the frame
ManiaRenderAt(a) ==
    /\ renderer' = [renderer EXCEPT !.speed = a.speed]
    /\ out' = RenderOut(renderer', a)

---------------------------------------------------------------------------
(* Inputs *)

MaxTicks == 2

Origin == [x |-> F(0), y |-> F(0)]

Positions == {Origin, [x |-> F(10), y |-> F(50)]}

\* arguments of set_speed: the host's slider range 0.5..2.0, and values outside it
PlayerSpeeds == {F(-1), F(0), Frac(1, 2), F(2)}

\* speeds handed to ManiaRenderer::render_at
Speeds == PlayerSpeeds \cup {F(1), Frac(3, 2)}

\* arguments of set_scroll_time
PlayerScrollTimes == {F(0), F(500), F(1000)}

\* scroll windows handed to ManiaRenderer::render_at
ScrollTimes == PlayerScrollTimes \cup {F(-500)}

\* arguments of set_current_time, in ms
SeekTimes == {-1000, 0, 1000, 5000}

\* lane counts (beatmap.circle_size as usize), at least 1
KeyCounts == {1, 4}

Heights == {F(800), F(400)}

TapOnly == <<Circle(0, 1000)>>

Mixed == <<Circle(0, 0), Hold(200, 0, 500), Spinner(256, 500, 100), Circle(300, 500),
           Hold(400, 500, 1000), Circle(100, 1500)>>

Wrapped == <<Circle(200, 1000), Circle(712, 1000), Circle(-312, 1000),
             Hold(200, 1000, 500), Hold(-312, 1000, 500), Hold(1224, 1000, 500)>>

HitObjectLists == {<<>>, TapOnly, Mixed, Wrapped}

Beatmap(mode, circle_size, hit_objects) ==
    [mode |-> mode, circle_size |-> circle_size, hit_objects |-> hit_objects]

\* one beatmap per game mode
Beatmaps ==
    {Beatmap("Mania", 4, Mixed), Beatmap("Osu", 4, TapOnly),
     Beatmap("Taiko", 4, TapOnly), Beatmap("Catch", 4, Mixed)}

\* the trigger and end times of the events of the lists
EventTimes ==
    UNION {UNION {{l[i].start_time, l[i].start_time + l[i].duration} : i \in 1..Len(l)} :
              l \in HitObjectLists}

\* current times handed to ManiaRenderer::render_at: a grid, and every t/s + w
CurrentTimes ==
    {F(t) : t \in {-1000, 0, 499, 1000, 1476, 1500, 2000, 3000}}
    \cup {FAdd(FDiv(F(t), s), w) : t \in EventTimes,
                                   s \in {x \in Speeds : FLt(F(0), x)},
                                   w \in {x \in ScrollTimes : FLt(F(0), x)}}

NoRenderer == [column_width |-> F(0), note_size |-> F(0), speed |-> F(0), height |-> F(0)]

---------------------------------------------------------------------------
(* Player *)

\* a constructor that builds the lane renderer whatever the game mode
PlayerNewAnyMode(bm, column_width, note_size, height) ==
    /\ beatmap = bm
    /\ now = 0
    /\ out = NoOut
    /\ player = "Some"
    /\ renderer = with_sizes(column_width, note_size, height)
    /\ start_time = now
    /\ speed = F(1)
    /\ scroll_time_ms = F(1000)

\* Player::new: None unless the beatmap is a Mania beatmap
PlayerNew(bm, column_width, note_size, height) ==
    /\ beatmap = bm
    /\ now = 0
    /\ out = NoOut
    /\ IF bm.mode = "Mania"
       THEN /\ player = "Some"
            /\ renderer = with_sizes(column_width, note_size, height)
            /\ start_time = now
            /\ speed = F(1)
            /\ scroll_time_ms = F(1000)
       ELSE /\ player = "None"
            /\ renderer = NoRenderer
            /\ start_time = 0
            /\ speed = F(0)
            /\ scroll_time_ms = F(0)

\* a Player used without the host
NoApp == [status |-> "None"]

Init == app = NoApp /\ \E bm \in Beatmaps : PlayerNew(bm, F(100), F(100), F(800))

\* start_time.elapsed(), in ms: saturates at zero
Elapsed == IF now >= start_time THEN now - start_time ELSE 0

\* a clock that scales the elapsed time by the speed multiplier
current_time_scaled == FMul(F(Elapsed), speed)

\* Player::current_time: self.start_time.elapsed().as_secs_f64() * 1000.0
current_time == F(Elapsed)

Call(op, arg, ret) == [NoOut EXCEPT !.op = op, !.arg = arg, !.ret = ret]

\* the wall clock advances between two calls
Tick ==
    /\ player = "Some"
    /\ now < MaxTicks * 500
    /\ now' = now + 500
    /\ out' = NoOut
    /\ UNCHANGED <<beatmap, player, start_time, speed, scroll_time_ms, renderer, app>>

SetSpeed(s) ==
    /\ player = "Some"
    /\ speed' = s
    /\ out' = Call("set_speed", s, <<>>)
    /\ UNCHANGED <<beatmap, player, now, start_time, scroll_time_ms, renderer, app>>

SetScrollTime(ms) ==
    /\ player = "Some"
    /\ scroll_time_ms' = ms
    /\ out' = Call("set_scroll_time", ms, <<>>)
    /\ UNCHANGED <<beatmap, player, now, start_time, speed, renderer, app>>

ResetTime ==
    /\ player = "Some"
    /\ start_time' = now
    /\ out' = Call("reset_time", <<>>, <<>>)
    /\ UNCHANGED <<beatmap, player, now, speed, scroll_time_ms, renderer, app>>

\* a seek that takes the milliseconds for seconds (no division by 1000.0)
SetCurrentTimeSeconds(time_ms) ==
    /\ player = "Some"
    /\ out' = Call("set_current_time", time_ms, <<>>)
    /\ IF time_ms < 0
       THEN /\ player' = "Panicked"
            /\ UNCHANGED start_time
       ELSE /\ start_time' = now - time_ms * 1000
            /\ UNCHANGED player
    /\ UNCHANGED <<beatmap, now, speed, scroll_time_ms, renderer, app>>

\* Instant::now() - Duration::from_secs_f64(time_ms / 1000.0);
\* Duration::from_secs_f64 panics on a negative value
SetCurrentTime(time_ms) ==
    /\ player = "Some"
    /\ out' = Call("set_current_time", time_ms, <<>>)
    /\ IF time_ms < 0
       THEN /\ player' = "Panicked"
            /\ UNCHANGED start_time
       ELSE /\ start_time' = now - time_ms
            /\ UNCHANGED player
    /\ UNCHANGED <<beatmap, now, speed, scroll_time_ms, renderer, app>>

CurrentTime ==
    /\ player = "Some"
    /\ out' = Call("current_time", <<>>, current_time)
    /\ UNCHANGED <<beatmap, player, now, start_time, speed, scroll_time_ms, renderer, app>>

GetRequiredSize ==
    /\ player = "Some"
    /\ out' = Call("get_required_size", <<>>,
                   <<required_width(renderer, beatmap.circle_size), required_height(renderer)>>)
    /\ UNCHANGED <<beatmap, player, now, start_time, speed, scroll_time_ms, renderer, app>>

\* the arguments Player::render_at hands to ManiaRenderer::render_at
PlayerRenderArgs(position) ==
    RenderArgs(beatmap.hit_objects, F(Elapsed), scroll_time_ms, speed,
               beatmap.circle_size, position)

RenderAt(position) ==
    /\ player = "Some"
    /\ ManiaRenderAt(PlayerRenderArgs(position))
    /\ UNCHANGED <<beatmap, player, now, start_time, speed, scroll_time_ms, app>>

Render == RenderAt(Origin)

Next ==
    \/ Tick
    \/ \E s \in PlayerSpeeds : SetSpeed(s)
    \/ \E ms \in PlayerScrollTimes : SetScrollTime(ms)
    \/ ResetTime
    \/ \E t \in SeekTimes : SetCurrentTime(t)
    \/ CurrentTime
    \/ GetRequiredSize
    \/ Render
    \/ \E p \in Positions : RenderAt(p)

Spec == Init /\ [][Next]_vars

---------------------------------------------------------------------------
(* The renderer on its own: ManiaRenderer's public interface *)

\* every call of ManiaRenderer::render_at the inputs allow
RenderCalls ==
    {RenderArgs(l, ct, w, s, k, p) :
        l \in HitObjectLists, ct \in CurrentTimes, w \in ScrollTimes, s \in Speeds,
        k \in KeyCounts, p \in Positions}

\* a renderer built by with_sizes, and the call the host is about to make
RendererInit ==
    /\ beatmap = Beatmap("Mania", 4, <<>>)
    /\ player = "None"
    /\ now = 0
    /\ start_time = 0
    /\ speed = F(1)
    /\ scroll_time_ms = F(1000)
    /\ renderer = with_sizes(F(100), F(100), F(800))
    /\ app = NoApp
    /\ \E a \in RenderCalls : out = Call("pending", a, <<>>)

SetHeight(h) ==
    /\ out.op = "pending"
    /\ renderer' = [renderer EXCEPT !.height = h]
    /\ UNCHANGED <<beatmap, player, now, start_time, speed, scroll_time_ms, out, app>>

RendererRenderAt ==
    /\ out.op = "pending"
    /\ ManiaRenderAt(out.arg)
    /\ UNCHANGED <<beatmap, player, now, start_time, speed, scroll_time_ms, app>>

\* ManiaRenderer::render: render_at with position (0, 0)
RendererRender ==
    /\ out.op = "pending"
    /\ out.arg.position = Origin
    /\ ManiaRenderAt(out.arg)
    /\ UNCHANGED <<beatmap, player, now, start_time, speed, scroll_time_ms, app>>

RendererNext ==
    \/ \E h \in Heights : SetHeight(h)
    \/ RendererRender
    \/ RendererRenderAt

RenderSpec == RendererInit /\ [][RendererNext]_vars

---------------------------------------------------------------------------
(* The host: ManiaApp, src/examples/mania.rs *)

\* what an event contributes to the track duration: a hold its end, any other
\* event its start
EventEnd(h) == IF h.kind = "Hold" THEN h.start_time + h.duration ELSE h.start_time

\* .fold(acc, f64::max) over the events from index i on
RECURSIVE FoldMax(_, _, _)
FoldMax(l, i, acc) ==
    IF i > Len(l) THEN acc
    ELSE FoldMax(l, i + 1, IF EventEnd(l[i]) > acc THEN EventEnd(l[i]) ELSE acc)

\* the track duration of a beatmap: .map(..).fold(0.0, f64::max)
MapDuration(bm) == FoldMax(bm.hit_objects, 1, 0)

LongNotes == <<Circle(0, 0), Hold(200, 500, 1500), Circle(300, 1000),
               Spinner(256, 1000, 2000)>>

\* the pairs (LN map, normal map) the host is started with
HostBeatmaps ==
    {<<Beatmap("Mania", 4, LongNotes), Beatmap("Mania", 4, TapOnly)>>,
     <<Beatmap("Mania", 4, <<>>), Beatmap("Mania", 4, Mixed)>>,
     <<Beatmap("Mania", 4, Mixed), Beatmap("Osu", 4, TapOnly)>>,
     <<Beatmap("Taiko", 4, TapOnly), Beatmap("Mania", 4, Mixed)>>}

\* values of the column-width and note-size sliders (50.0..=200.0)
HostSizes == {F(100), F(200)}

\* values of the playback-speed slider (0.5..=2.0)
HostSpeeds == {F(1), F(2)}

\* values of the scroll-speed slider (500.0..=2000.0)
HostScrollSpeeds == {F(500), F(1000)}

\* values of the position slider, kept within 0.0..=map_duration by the guard
HostPositions == {0, 1000}

\* ManiaApp::new: None when Player::new returns None
ManiaAppNew(beatmap_ln, beatmap_normal, column_width, note_size, height) ==
    /\ PlayerNew(beatmap_ln, column_width, note_size, height)
    /\ app = IF player = "Some"
             THEN [status |-> "Running",
                   playback_time |-> 0,
                   map_duration |-> MapDuration(beatmap_ln),
                   playback_speed |-> F(1),
                   scroll_speed |-> F(1000),
                   column_width |-> column_width,
                   note_size |-> note_size,
                   beatmap_ln |-> beatmap_ln,
                   beatmap_normal |-> beatmap_normal,
                   using_ln |-> TRUE]
             ELSE NoApp

\* main: column_width 100.0, note_size 100.0, height 800.0
HostInit == \E bms \in HostBeatmaps : ManiaAppNew(bms[1], bms[2], F(100), F(100), F(800))

\* a reload that builds the new Player and leaves map_duration as it was
reload_player_keep_duration(a, should_reset) ==
    LET bm == IF a.using_ln THEN a.beatmap_ln ELSE a.beatmap_normal
        playback_time == IF should_reset THEN 0 ELSE a.playback_time
        b == [a EXCEPT !.playback_time = playback_time]
    IN  /\ out' = NoOut
        /\ UNCHANGED now
        /\ IF bm.mode = "Mania"
           THEN /\ app' = b
                /\ beatmap' = bm
                /\ player' = "Some"
                /\ renderer' = with_sizes(a.column_width, a.note_size, F(800))
                /\ start_time' = now - playback_time
                /\ speed' = a.playback_speed
                /\ scroll_time_ms' = a.scroll_speed
           ELSE /\ app' = [b EXCEPT !.status = "Panicked"]
                /\ player' = "Panicked"
                /\ UNCHANGED <<beatmap, renderer, start_time, speed, scroll_time_ms>>

\* ManiaApp::reload_player_with_reset, on the host a whose handler has already
\* stored the changed field: map_duration and playback_time are assigned first,
\* then Player::new(..).expect(..) (which panics for a beatmap of another game
\* mode), set_current_time(playback_time), set_speed(playback_speed) and
\* set_scroll_time(scroll_speed).  playback_time is never negative here: it is
\* 0, a value of the position slider or a reading of the clock.
reload_player_with_reset(a, should_reset) ==
    LET bm == IF a.using_ln THEN a.beatmap_ln ELSE a.beatmap_normal
        playback_time == IF should_reset THEN 0 ELSE a.playback_time
        b == [a EXCEPT !.map_duration = MapDuration(bm), !.playback_time = playback_time]
    IN  /\ out' = NoOut
        /\ UNCHANGED now
        /\ IF bm.mode = "Mania"
           THEN /\ app' = b
                /\ beatmap' = bm
                /\ player' = "Some"
                /\ renderer' = with_sizes(a.column_width, a.note_size, F(800))
                /\ start_time' = now - playback_time
                /\ speed' = a.playback_speed
                /\ scroll_time_ms' = a.scroll_speed
           ELSE /\ app' = [b EXCEPT !.status = "Panicked"]
                /\ player' = "Panicked"
                /\ UNCHANGED <<beatmap, renderer, start_time, speed, scroll_time_ms>>

\* ManiaApp::reload_player
reload_player(a) == reload_player_with_reset(a, TRUE)

\* the "LN Map" button
ToggleLN ==
    /\ app.status = "Running"
    /\ ~app.using_ln
    /\ reload_player([app EXCEPT !.using_ln = TRUE])

\* the "Normal Map" button
ToggleNormal ==
    /\ app.status = "Running"
    /\ app.using_ln
    /\ reload_player([app EXCEPT !.using_ln = FALSE])

\* the column-width slider
ColumnWidthChanged(w) ==
    /\ app.status = "Running"
    /\ reload_player_with_reset([app EXCEPT !.column_width = w], FALSE)

\* the note-size slider
NoteSizeChanged(n) ==
    /\ app.status = "Running"
    /\ reload_player_with_reset([app EXCEPT !.note_size = n], FALSE)

\* the position slider: player.set_current_time(playback_time)
PositionChanged(t) ==
    /\ app.status = "Running"
    /\ t <= app.map_duration
    /\ app' = [app EXCEPT !.playback_time = t]
    /\ start_time' = now - t
    /\ out' = NoOut
    /\ UNCHANGED <<beatmap, player, now, speed, scroll_time_ms, renderer>>

\* the playback-speed slider: player.set_speed(playback_speed)
PlaybackSpeedChanged(s) ==
    /\ app.status = "Running"
    /\ app' = [app EXCEPT !.playback_speed = s]
    /\ speed' = s
    /\ out' = NoOut
    /\ UNCHANGED <<beatmap, player, now, start_time, scroll_time_ms, renderer>>

\* the scroll-speed slider: player.set_scroll_time(scroll_speed)
ScrollSpeedChanged(ms) ==
    /\ app.status = "Running"
    /\ app' = [app EXCEPT !.scroll_speed = ms]
    /\ scroll_time_ms' = ms
    /\ out' = NoOut
    /\ UNCHANGED <<beatmap, player, now, start_time, speed, renderer>>

\* ManiaApp::update, the central panel: render the frame, then read the clock
\* back into playback_time unless the pointer is held down
Update(pointer_down) ==
    /\ app.status = "Running"
    /\ ManiaRenderAt(PlayerRenderArgs(Origin))
    /\ app' = IF pointer_down THEN app ELSE [app EXCEPT !.playback_time = Elapsed]
    /\ UNCHANGED <<beatmap, player, now, start_time, speed, scroll_time_ms>>

HostNext ==
    \/ Tick
    \/ ToggleLN
    \/ ToggleNormal
    \/ \E w \in HostSizes : ColumnWidthChanged(w)
    \/ \E n \in HostSizes : NoteSizeChanged(n)
    \/ \E t \in HostPositions : PositionChanged(t)
    \/ \E s \in HostSpeeds : PlaybackSpeedChanged(s)
    \/ \E ms \in HostScrollSpeeds : ScrollSpeedChanged(ms)
    \/ \E pointer_down \in BOOLEAN : Update(pointer_down)

HostSpec == HostInit /\ [][HostNext]_vars

---------------------------------------------------------------------------
(* The playback clock *)

\* C1: for every speed set before and every t_ms >= 0, set_current_time(t_ms)
\* leaves the Player such that current_time(), read with no wall-clock time
\* elapsed, returns t_ms, and it leaves the speed multiplier unchanged.
C1_SeekThenRead ==
    [][(out'.op = "set_current_time" /\ out'.arg >= 0)
         => /\ player' = "Some"
            /\ current_time' = F(out'.arg)
            /\ speed' = speed]_vars

\* a seek to 5000 ms at speed 2, half a second after construction
C1_Witness ==
    /\ player = "Some"
    /\ out.op = "set_current_time"
    /\ out.arg = 5000
    /\ speed = F(2)
    /\ now = 500
    /\ current_time = F(5000)

C3_NoFailureModes == out.op = "set_current_time" => player = "Some"

---------------------------------------------------------------------------
(* The projection *)

\* the frame of the last step, if it was a render call
Rendered == out.op = "render_at"

\* position.y + playfield_height - 100 of the rendered frame
FrameLineY == FSub(FAdd(out.arg.position.y, renderer.height), F(100))

FrameObjects == 1..Len(out.arg.hit_objects)

\* the frame holds a primitive of kind k drawn for hit object i
Emits(k, i) == \E n \in 1..Len(out.cmds) : out.cmds[n].kind = k /\ out.cmds[n].obj = i

\* the frame was rendered with a positive speed and a positive scroll window
PositiveArgs == FLt(F(0), out.arg.speed) /\ FLt(F(0), out.arg.scroll_time_ms)

\* hit object i is at the boundary: current_time = t/s + w, with s > 0 and w > 0
AtBoundary(i) ==
    /\ PositiveArgs
    /\ out.arg.current_time
         = FAdd(FDiv(F(out.arg.hit_objects[i].start_time), out.arg.speed),
                out.arg.scroll_time_ms)

\* C4: for every positive speed s, positive scroll window w and event time t,
\* at current_time = t/s + w the projected Y of the event is exactly
\* judgment_line_y = position.y + playfield_height - 100 (and a tap or hold start
\* is then drawn there, when the line is on the canvas).
C4_BoundaryAtJudgmentLine ==
    Rendered =>
        \A i \in FrameObjects :
            AtBoundary(i) =>
                /\ out.ys[i] = FrameLineY
                /\ (out.arg.hit_objects[i].kind \in {"Circle", "Hold"} /\ FLe(F(0), FrameLineY))
                     => \E n \in 1..Len(out.cmds) :
                            /\ out.cmds[n].kind = "note"
                            /\ out.cmds[n].obj = i
                            /\ out.cmds[n].y = FrameLineY

\* a frame at speed 3/2: the boundary time t/s + w is no whole millisecond
C4_Witness ==
    /\ Rendered
    /\ out.arg.speed = Frac(3, 2)
    /\ out.arg.current_time.d = 3
    /\ \E i \in FrameObjects :
           /\ AtBoundary(i)
           /\ out.arg.hit_objects[i].kind = "Hold"
           /\ out.ys[i] = FrameLineY
           /\ Emits("note", i)

\* the scenario of C5: one Tap at lane 0, 1000 ms; speed 1, window 1000 ms,
\* playfield height 800
TapScenario(ct) ==
    /\ Rendered
    /\ out.arg.hit_objects = TapOnly
    /\ out.arg.speed = F(1)
    /\ out.arg.scroll_time_ms = F(1000)
    /\ renderer.height = F(800)
    /\ out.arg.current_time = F(ct)

\* C5 as stated: in the scenario, at current_time = 0 the projected Y is
\* judgment_line_y, and at current_time = -1000 it is judgment_line_y - 800.
C5_TapAtZero ==
    /\ TapScenario(0) => out.ys[1] = FrameLineY
    /\ TapScenario(-1000) => out.ys[1] = FSub(FrameLineY, F(800))

\* C5 amended: in the scenario the tap reaches the judgment line at
\* current_time = 2000 = t/s + w and is one playfield height (800) above it at
\* current_time = 1000; at current_time = 0 it is at judgment_line_y - 1600 and at
\* current_time = -1000 at judgment_line_y - 2400.
C5_TapScenario ==
    /\ TapScenario(2000) => out.ys[1] = FrameLineY
    /\ TapScenario(1000) => out.ys[1] = FSub(FrameLineY, F(800))
    /\ TapScenario(0) => out.ys[1] = FSub(FrameLineY, F(1600))
    /\ TapScenario(-1000) => out.ys[1] = FSub(FrameLineY, F(2400))

\* the scenario rendered at current_time = 0: the tap is two playfield heights up
C5_Witness ==
    /\ TapScenario(0)
    /\ out.arg.position = Origin
    /\ out.ys[1] = F(-900)
    /\ ~Emits("note", 1)

---------------------------------------------------------------------------
(* Culling, holds and the draw order *)

Markers(i) == {n \in 1..Len(out.cmds) : out.cmds[n].kind = "note" /\ out.cmds[n].obj = i}

\* C6: in every render call a marker (a Tap, or a Hold's start marker) is emitted
\* if and only if its projected Y is within [0, judgment_line_y]; a hit object
\* that is neither Tap nor Hold never emits a marker.
C6_MarkerIffVisible ==
    Rendered =>
        /\ \A i \in FrameObjects :
               /\ Markers(i) # {}
                    <=> /\ out.arg.hit_objects[i].kind \in {"Circle", "Hold"}
                        /\ FLe(F(0), out.ys[i])
                        /\ FLe(out.ys[i], FrameLineY)
               /\ Cardinality(Markers(i)) <= 1
               /\ \A n \in Markers(i) : out.cmds[n].y = out.ys[i]
        /\ \A n \in 1..Len(out.cmds) :
               out.cmds[n].kind = "note" => out.cmds[n].obj \in FrameObjects

\* one frame with a tap drawn on the line, a tap culled above the top, a tap
\* culled past the line and a spinner inside the playfield
C6_Witness ==
    /\ Rendered
    /\ \E i, j, k, m \in FrameObjects :
           /\ out.arg.hit_objects[i].kind = "Circle" /\ Markers(i) # {}
           /\ out.arg.hit_objects[j].kind = "Circle" /\ FLt(out.ys[j], F(0)) /\ Markers(j) = {}
           /\ out.arg.hit_objects[k].kind = "Circle" /\ FLt(FrameLineY, out.ys[k])
              /\ Markers(k) = {}
           /\ out.arg.hit_objects[m].kind = "Spinner" /\ FLe(F(0), out.ys[m])
              /\ FLe(out.ys[m], FrameLineY) /\ Markers(m) = {}

FrameHolds == {i \in FrameObjects : out.arg.hit_objects[i].kind = "Hold"}

\* the end projection of hold i is past the judgment line
EndPastLine(i) == FLt(FrameLineY, out.end_ys[i])

Bodies(i) == {n \in 1..Len(out.cmds) : out.cmds[n].kind = "body" /\ out.cmds[n].obj = i}

\* the lower edge of a rectangle
Bottom(c) == FAdd(c.y, c.h)

C8_HoldAboveLine ==
    (Rendered /\ PositiveArgs) =>
        \A n \in 1..Len(out.cmds) :
            out.cmds[n].kind \in {"body", "cap"} => FLe(Bottom(out.cmds[n]), FrameLineY)

\* C9: the primitives of a frame come in this order: the lane_count lane strips,
\* the judgment line, every hold body and cap, and only then the markers; no
\* body or cap follows a marker, and an empty event list draws only the lanes
\* and the line.
C9_DrawOrder ==
    Rendered =>
        LET k == out.arg.keycount
            cmds == out.cmds
        IN  /\ Len(cmds) >= k + 1
            /\ \A n \in 1..k : cmds[n].kind = "lane"
            /\ cmds[k + 1].kind = "line"
            /\ \A n \in (k + 2)..Len(cmds) : cmds[n].kind \in {"body", "cap", "note"}
            /\ \A m, n \in 1..Len(cmds) :
                   (m < n /\ cmds[m].kind = "note") => cmds[n].kind = "note"
            /\ out.arg.hit_objects = <<>> => Len(cmds) = k + 1

\* a frame in which a tap that comes first in the event list is drawn after the
\* body and cap of a hold that comes later in the list
C9_Witness ==
    /\ Rendered
    /\ \E i, j \in FrameObjects :
           /\ i < j
           /\ out.arg.hit_objects[i].kind = "Circle"
           /\ j \in FrameHolds
           /\ \E m, n, q \in 1..Len(out.cmds) :
                  /\ m < q /\ n < q
                  /\ out.cmds[m].kind = "body" /\ out.cmds[m].obj = j
                  /\ out.cmds[n].kind = "cap" /\ out.cmds[n].obj = j
                  /\ out.cmds[q].kind = "note" /\ out.cmds[q].obj = i

\* the raw coordinates of hit objects i and j differ by 512 * k for an integer k
SameModuloPlayfield(i, j) ==
    (out.arg.hit_objects[i].pos_x - out.arg.hit_objects[j].pos_x) % 512 = 0

\* C10 as stated (here for a positive speed and scroll window already): the lane
\* of a tap or hold is unchanged when 512 * k is added to its raw coordinate, for
\* every integer k: two markers (or two hold bodies) drawn for coordinates that
\* differ by a multiple of 512 are in the same lane.
C10_LanePeriodic ==
    (Rendered /\ PositiveArgs) =>
        \A m, n \in 1..Len(out.cmds) :
            (/\ out.cmds[m].kind \in {"note", "body"}
             /\ out.cmds[m].kind = out.cmds[n].kind
             /\ SameModuloPlayfield(out.cmds[m].obj, out.cmds[n].obj))
                => out.cmds[m].x = out.cmds[n].x

---------------------------------------------------------------------------
(* The configuration surface *)

\* C11 as stated: after any sequence of Player::new, set_speed and
\* set_scroll_time calls with arbitrary arguments (0 and negative values
\* included), the speed multiplier and the scroll window the Player holds, and
\* the ones a render call hands to the projection, are strictly greater than 0.
C11_PositiveConfiguration ==
    /\ player = "Some" => (FLt(F(0), speed) /\ FLt(F(0), scroll_time_ms))
    /\ Rendered => PositiveArgs

\* the state Player::new leaves: no call made yet, no wall-clock time elapsed
\* (every call records itself in out, and Tick moves now)
JustConstructed == out = NoOut /\ now = 0

\* C12: Player::new returns a usable Player if and only if the beatmap's game
\* mode is Mania, and that Player starts with speed 1.0 and a scroll window of
\* 1000 ms; for every other game mode the result is None, and no renderer and
\* no partial Player exists then or later.
C12_PlayerIffMania ==
    /\ (player = "None") <=> (beatmap.mode # "Mania")
    /\ player = "None" => renderer = NoRenderer
    /\ (JustConstructed /\ beatmap.mode = "Mania") =>
           /\ player = "Some"
           /\ speed = F(1)
           /\ scroll_time_ms = F(1000)
           /\ renderer = with_sizes(F(100), F(100), F(800))

\* Player::new has returned None for a beatmap of another game mode
C12_Witness ==
    /\ JustConstructed
    /\ beatmap.mode \in {"Osu", "Taiko", "Catch"}
    /\ player = "None"

---------------------------------------------------------------------------
(* Hold bodies and end caps *)

Caps(i) == {n \in 1..Len(out.cmds) : out.cmds[n].kind = "cap" /\ out.cmds[n].obj = i}

\* C14: for every hold and every current time, a render call emits the hold's
\* body rectangle and its end-cap rectangle both or neither (one of each), and
\* emits them exactly when the hold's end projection is <= judgment_line_y;
\* nothing is culled at the top of the playfield, so no emitted hold is ever
\* without its cap, however far above Y = 0 it is.
C14_BodyAndCapTogether ==
    Rendered =>
        \A i \in FrameHolds :
            IF FLe(out.end_ys[i], FrameLineY)
            THEN Cardinality(Bodies(i)) = 1 /\ Cardinality(Caps(i)) = 1
            ELSE Bodies(i) = {} /\ Caps(i) = {}

\* a hold whose start and end projections are both above Y = 0, emitted with
\* its body and its cap
C14_Witness ==
    /\ Rendered
    /\ PositiveArgs
    /\ out.arg.position = Origin
    /\ \E i \in FrameHolds :
           /\ FLt(out.ys[i], F(0))
           /\ FLt(out.end_ys[i], F(0))
           /\ Bodies(i) # {}
           /\ Caps(i) # {}

---------------------------------------------------------------------------
(* The host's track duration *)

\* the beatmap the host has selected
ActiveBeatmap == IF app.using_ln THEN app.beatmap_ln ELSE app.beatmap_normal

\* start_time of each event of the active beatmap, start_time + duration for a hold
ActiveEnds ==
    {IF ActiveBeatmap.hit_objects[i].kind = "Hold"
     THEN ActiveBeatmap.hit_objects[i].start_time + ActiveBeatmap.hit_objects[i].duration
     ELSE ActiveBeatmap.hit_objects[i].start_time : i \in 1..Len(ActiveBeatmap.hit_objects)}

\* C13: in the host, after construction and after any sequence of beatmap
\* toggles and column-width or note-size changes, map_duration is the maximum,
\* over the events of the currently active beatmap, of start_time (for a hold
\* start_time + duration): 0 for a beatmap without events, and never the value
\* of the beatmap that was active before.  The Player plays the active beatmap.
C13_MapDurationOfActiveBeatmap ==
    app.status # "None" =>
        /\ IF ActiveEnds = {}
           THEN app.map_duration = 0
           ELSE /\ app.map_duration \in ActiveEnds
                /\ \A e \in ActiveEnds : e <= app.map_duration
        /\ app.status = "Running" => beatmap = ActiveBeatmap

\* the normal map is active after a toggle and a column-width change, and its
\* duration differs from the LN map's
C13_Witness ==
    /\ app.status = "Running"
    /\ ~app.using_ln
    /\ app.column_width # F(100)
    /\ app.map_duration # MapDuration(app.beatmap_ln)
    /\ app.map_duration = MapDuration(app.beatmap_normal)

====
